---- MODULE Spec2Model ----
(***************************************************************************)
(* A model of the core of afs (src/src/lib.rs): the path functions         *)
(* resolve, normalize_path and get_filepath, the directory walker          *)
(* get_dir_size, the content hasher hash / hash_sync, and the wrappers     *)
(* mkdir_sync, rmdir_sync, unlink_sync, chmod_sync and create_file_sync.   *)
(*                                                                         *)
(* Paths are sequences of one-character strings.  The path semantics are   *)
(* those of a Unix build (std::path on cfg(unix), the platform the         *)
(* repository's resolve tests run on): "/" is the only separator and a     *)
(* backslash is an ordinary file-name character.                           *)
(***************************************************************************)
EXTENDS Integers, Sequences, FiniteSets, TLC

VARIABLES
    op,         \* the path function that was called last ("none" before any call)
    base,       \* resolve: base_str
    input,      \* resolve: input_str; normalize_path / get_filepath: path
    result,     \* the value the call returned
    created,   \* the entries the call created
    removed,   \* the entries the call removed
    platform,  \* chmod_sync: the platform the build is for, unix or windows
    chmode,    \* chmod_sync: mode
    permissions, \* the permissions of the file /a/a
    \* get_dir_size
    dkind,      \* the filesystem: the kind of each entry that may be a file or a link
    dsize,      \* the filesystem: the byte length of each regular file
    dpc,        \* where the call is: "idle", "loop", "iter", "meta", "done"
    dpath,      \* dir_path
    stack,      \* stack
    total_size, \* total_size
    cur,        \* the directory whose entries are being read
    entries,    \* the names the read_dir stream has not returned yet
    entry,      \* the entry whose metadata is awaited
    dresult,    \* the value the call returned
    ioFailed,   \* the filesystem call of this call that failed, if one did
    pushed,     \* the paths the call has pushed onto the stack
    listed,     \* the directories the call has listed
    summed,     \* the entries whose length the call has added
    repeated,   \* a path was pushed, a directory listed or an entry summed a second time
    \* hash, hash_sync
    hcontent,   \* the filesystem: the bytes of each regular file
    hpc,        \* where the call is: "idle", "open", "read", "done"
    hmode,      \* "hash" or "hash_sync"
    harg,       \* filepath
    hpath,      \* path, the result of get_filepath
    hpos,       \* the read position of the open file
    hasher,     \* the state of the hasher
    buffer,     \* buffer
    hresult,    \* the last call that returned: its arguments and its result
    hprev,      \* the call that returned before it
    hfile,      \* the open file handle of the call, None when the call holds none
    hfailed,    \* the first step of the call that failed, if one did
    hread,      \* the bytes the reads of the call delivered, in order
    hheld,     \* the contents the file of the call has held since the call began
    \* create_file_sync
    cpc,        \* where the call is: "idle", "is_file", "parent", "parent_is_dir",
                \* "mkdirs", "create", "done"
    cpath,      \* path_str_normalized
    cfs,        \* the filesystem: the entries below the working directory
    cfs0,       \* the filesystem as it was when the call began
    cresult,    \* the value the call returned
    cwrites     \* the number of files another process has created

pathVars == <<op, base, input, result, created, removed, platform, chmode, permissions>>
dirVars == <<dkind, dsize, dpc, dpath, stack, total_size, cur, entries, entry,
             dresult, ioFailed, pushed, listed, summed, repeated>>

hashVars == <<hcontent, hpc, hmode, harg, hpath, hpos, hasher, buffer, hresult, hprev,
              hfile, hfailed, hread, hheld>>

createVars == <<cpc, cpath, cfs, cfs0, cresult, cwrites>>

vars == <<pathVars, dirVars, hashVars, createVars>>

----------------------------------------------------------------------------
(* Bounds of the path model *)

MaxBaseLen == 4
MaxInputLen == 4

Sep == "/"
Backslash == "\\"
Dot == "."

Chars == {Sep, Backslash, Dot, "a"}

StrUpTo(n) == UNION {[1..k -> Chars] : k \in 0..n}

\* the worked example of the tests, shortened: resolve("/a/aa", "../a")
ExampleBase == <<"/", "a", "/", "a", "a">>

\* an input that climbs twice: resolve("/", "../..")
TwoParents == <<".", ".", "/", ".", ".">>

Bases == StrUpTo(MaxBaseLen) \cup {ExampleBase}
Inputs == StrUpTo(MaxInputLen) \cup {TwoParents}

None == [some |-> FALSE]
Some(v) == [some |-> TRUE, val |-> v]

Ok(v) == [ok |-> TRUE, val |-> v]
Err(e) == [ok |-> FALSE, err |-> e]

----------------------------------------------------------------------------
(* std::path on Unix, as far as resolve uses it *)

Front(s) == SubSeq(s, 1, Len(s) - 1)
Last(s) == s[Len(s)]
Drop(s, n) == SubSeq(s, n + 1, Len(s))

\* Path::is_absolute / has_root (unix): the path starts with the separator
HasRoot(s) == Len(s) > 0 /\ s[1] = Sep
IsAbsolute(s) == HasRoot(s)

\* Components::include_cur_dir: a leading "." that is a whole segment
IncludeCurDir(s) ==
    /\ ~HasRoot(s)
    /\ Len(s) >= 1
    /\ s[1] = Dot
    /\ (Len(s) = 1 \/ s[2] = Sep)

\* Components::len_before_body
LenBeforeBody(s) ==
    (IF HasRoot(s) THEN 1 ELSE 0) + (IF IncludeCurDir(s) THEN 1 ELSE 0)

\* Components::parse_single_component: "" and "." are dropped
ParseSingleComponent(c) ==
    IF c = <<>> \/ c = <<Dot>> THEN None
    ELSE IF c = <<Dot, Dot>> THEN Some([kind |-> "ParentDir"])
    ELSE Some([kind |-> "Normal", name |-> c])

\* the index of the last separator of s after position start, 0 if there is none
RPosSep(s, start) ==
    LET idx == {i \in (start + 1)..Len(s) : s[i] = Sep}
    IN IF idx = {} THEN 0 ELSE CHOOSE i \in idx : \A j \in idx : j <= i

\* the index of the first separator of s after position start, 0 if there is none
PosSep(s, start) ==
    LET idx == {i \in (start + 1)..Len(s) : s[i] = Sep}
    IN IF idx = {} THEN 0 ELSE CHOOSE i \in idx : \A j \in idx : j >= i

\* Components::parse_next_component_back
ParseNextComponentBack(s) ==
    LET start == LenBeforeBody(s)
        i == RPosSep(s, start)
        comp == IF i = 0 THEN Drop(s, start) ELSE Drop(s, i)
        extra == IF i = 0 THEN 0 ELSE 1
    IN [size |-> Len(comp) + extra, comp |-> ParseSingleComponent(comp)]

\* Components::next_back on a fresh iterator: the last component, the path that
\* is left and whether the iterator is still in its body
RECURSIVE NextBack(_)
NextBack(s) ==
    IF Len(s) > LenBeforeBody(s)
    THEN LET p == ParseNextComponentBack(s)
             rest == SubSeq(s, 1, Len(s) - p.size)
         IN IF p.comp.some
            THEN [comp |-> p.comp, path |-> rest, body |-> TRUE]
            ELSE NextBack(rest)
    ELSE IF HasRoot(s)
    THEN [comp |-> Some([kind |-> "RootDir"]), path |-> Front(s), body |-> FALSE]
    ELSE IF IncludeCurDir(s)
    THEN [comp |-> Some([kind |-> "CurDir"]), path |-> Front(s), body |-> FALSE]
    ELSE [comp |-> None, path |-> s, body |-> FALSE]

\* Components::trim_right
RECURSIVE TrimRight(_)
TrimRight(s) ==
    IF Len(s) > LenBeforeBody(s)
    THEN LET p == ParseNextComponentBack(s)
         IN IF p.comp.some THEN s ELSE TrimRight(SubSeq(s, 1, Len(s) - p.size))
    ELSE s

\* Path::parent
Parent(s) ==
    LET nb == NextBack(s)
    IN IF nb.comp.some /\ nb.comp.val.kind \in {"Normal", "CurDir", "ParentDir"}
       THEN Some(IF nb.body THEN TrimRight(nb.path) ELSE nb.path)
       ELSE None

\* a pop that cuts at the last separator, whatever precedes it
PopAtLastSep(s) ==
    LET i == RPosSep(s, 0) IN IF i = 0 THEN <<>> ELSE SubSeq(s, 1, i)

\* a pop that empties the buffer when there is no parent
PopUnderflows(s) ==
    LET p == Parent(s) IN IF p.some THEN SubSeq(s, 1, Len(p.val)) ELSE <<>>

\* PathBuf::pop: truncate to the parent, do nothing when there is none
Pop(s) ==
    LET p == Parent(s) IN IF p.some THEN SubSeq(s, 1, Len(p.val)) ELSE s

\* PathBuf::push of a relative name: a separator is added unless the buffer is
\* empty or ends with one; an absolute name replaces the buffer
Push(s, name) ==
    IF HasRoot(name) THEN name
    ELSE IF Len(s) > 0 /\ Last(s) # Sep THEN s \o <<Sep>> \o name
    ELSE s \o name

\* the body components of s from position start on, front to back
RECURSIVE BodyComponents(_, _)
BodyComponents(s, start) ==
    IF start >= Len(s) THEN <<>>
    ELSE LET i == PosSep(s, start)
             seg == IF i = 0 THEN Drop(s, start) ELSE SubSeq(s, start + 1, i - 1)
             next == IF i = 0 THEN Len(s) ELSE i
             c == ParseSingleComponent(seg)
         IN (IF c.some THEN <<c.val>> ELSE <<>>) \o BodyComponents(s, next)

\* Path::components
Components(s) ==
    (IF HasRoot(s) THEN <<[kind |-> "RootDir"]>>
     ELSE IF IncludeCurDir(s) THEN <<[kind |-> "CurDir"]>>
     ELSE <<>>)
    \o BodyComponents(s, LenBeforeBody(s))

----------------------------------------------------------------------------
(* resolve, normalize_path *)

\* a resolve that pops on "." as well
ResolveStepDotPops(acc, c) ==
    CASE c.kind = "ParentDir" -> Pop(acc)
      [] c.kind = "Normal" -> Push(acc, c.name)
      [] c.kind = "CurDir" -> Pop(acc)
      [] c.kind = "RootDir" -> <<Sep>>

\* one iteration of the loop of resolve: the match on the component
\* (Component::Prefix does not occur on Unix)
ResolveStep(acc, c) ==
    CASE c.kind = "ParentDir" -> Pop(acc)
      [] c.kind = "Normal" -> Push(acc, c.name)
      [] c.kind = "CurDir" -> acc
      [] c.kind = "RootDir" -> <<Sep>>

RECURSIVE ResolveLoop(_, _)
ResolveLoop(acc, comps) ==
    IF comps = <<>> THEN acc
    ELSE ResolveLoop(ResolveStep(acc, Head(comps)), Tail(comps))

\* resolve(base_str, input_str); to_str cannot fail on paths built from two &str
resolve(b, i) ==
    IF IsAbsolute(i) THEN Ok(i) ELSE Ok(ResolveLoop(b, Components(i)))

\* a replace that stops after the first match
NormalizeFirstOnly(p) ==
    LET idx == {i \in 1..Len(p) : p[i] = Backslash}
        first == IF idx = {} THEN 0 ELSE CHOOSE i \in idx : \A j \in idx : i <= j
    IN [i \in 1..Len(p) |-> IF i = first THEN Sep ELSE p[i]]

\* str::replace: every non-overlapping match of pat, left to right
RECURSIVE Replace(_, _, _)
Replace(s, pat, to) ==
    IF Len(s) < Len(pat) THEN s
    ELSE IF SubSeq(s, 1, Len(pat)) = pat
    THEN to \o Replace(Drop(s, Len(pat)), pat, to)
    ELSE <<Head(s)>> \o Replace(Tail(s), pat, to)

\* normalize_path: path.replace("\\", "/")
normalize_path(p) == Replace(p, <<Backslash>>, <<Sep>>)


----------------------------------------------------------------------------
(* The filesystem std::fs::canonicalize looks at in the path model: a fixed *)
(* tree, keyed by the canonical path of each entry (its list of names).    *)

Na == <<"a">>
NaaB == <<"a", "a", Backslash>>
NdotA == <<Dot, "a">>
NaDot == <<"a", Dot>>
NdotDotA == <<Dot, Dot, "a">>
NaDotA == <<"a", Dot, "a">>
NB == <<Backslash>>

Dir == [kind |-> "dir"]
File == [kind |-> "file"]
Symlink(t) == [kind |-> "symlink", target |-> t]

\*  /a        directory, the working directory
\*  /a/a      regular file
\*  /a/aa\    regular file whose name ends with a backslash
\*  /a/.a     symbolic link to aa\
\*  /a/a.     symbolic link to /a
\*  /a/..a    symbolic link to aaa, which does not exist
\*  /a/a.a    symbolic link to itself
\*  /\        regular file
PathFs ==
    (<<Na>> :> Dir) @@
    (<<Na, Na>> :> File) @@
    (<<Na, NaaB>> :> File) @@
    (<<Na, NdotA>> :> Symlink(NaaB)) @@
    (<<Na, NaDot>> :> Symlink(<<Sep, "a">>)) @@
    (<<Na, NdotDotA>> :> Symlink(<<"a", "a", "a">>)) @@
    (<<Na, NaDotA>> :> Symlink(NaDotA)) @@
    (<<NB>> :> File)

Cwd == <<Na>>

\* the number of symbolic links one lookup follows before it gives up (ELOOP)
MaxSymlinks == 3

IsDirAt(p) == p = <<>> \/ (p \in DOMAIN PathFs /\ PathFs[p].kind = "dir")

\* the text of a canonical path
RECURSIVE CanonStr(_)
CanonStr(p) ==
    IF p = <<>> THEN <<Sep>>
    ELSE IF Len(p) = 1 THEN <<Sep>> \o p[1]
    ELSE CanonStr(Front(p)) \o <<Sep>> \o Last(p)

\* the lookup of realpath: "at" is the canonical directory reached so far
RECURSIVE Walk(_, _, _)
Walk(at, comps, fuel) ==
    IF comps = <<>> THEN Ok(at)
    ELSE LET c == Head(comps)
             rest == Tail(comps)
         IN CASE c.kind = "RootDir" -> Walk(<<>>, rest, fuel)
              [] c.kind = "CurDir" -> Walk(at, rest, fuel)
              [] c.kind = "ParentDir" ->
                    Walk(IF at = <<>> THEN at ELSE Front(at), rest, fuel)
              [] c.kind = "Normal" ->
                    LET p == Append(at, c.name)
                    IN IF p \notin DOMAIN PathFs THEN Err("NotFound")
                       ELSE IF PathFs[p].kind = "symlink"
                       THEN IF fuel = 0 THEN Err("FilesystemLoop")
                            ELSE Walk(at, Components(PathFs[p].target) \o rest, fuel - 1)
                       ELSE IF PathFs[p].kind = "file" /\ rest # <<>>
                       THEN Err("NotADirectory")
                       ELSE Walk(p, rest, fuel)

\* a path text that ends in a separator (or "/.") names a directory or nothing
MustBeDir(s) ==
    \/ (Len(s) >= 1 /\ Last(s) = Sep)
    \/ (Len(s) >= 2 /\ Last(s) = Dot /\ s[Len(s) - 1] = Sep)

\* std::fs::canonicalize (realpath): the canonical path of an existing entry,
\* or the I/O error of the lookup
canonicalize(s) ==
    IF s = <<>> THEN Err("NotFound")
    ELSE LET w == Walk(Cwd, Components(s), MaxSymlinks)
         IN IF ~w.ok THEN w
            ELSE IF MustBeDir(s) /\ ~IsDirAt(w.val) THEN Err("NotADirectory")
            ELSE Ok(CanonStr(w.val))

\* a get_filepath that hands the caller's text to canonicalize as it came
GetFilepathRaw(path) ==
    LET real_path == canonicalize(path)
    IN IF ~real_path.ok
       THEN Err([context |-> path, cause |-> real_path.err])
       ELSE Ok(real_path.val)

\* get_filepath: normalize_path, then canonicalize with the normalized text as
\* the context of its error; the result is the canonical text as it is (the
\* trailing normalize_path(s) is commented out in the source)
get_filepath(path) ==
    LET normalized_input == normalize_path(path)
        real_path == canonicalize(normalized_input)
    IN IF ~real_path.ok
       THEN Err([context |-> normalized_input, cause |-> real_path.err])
       ELSE Ok(real_path.val)

----------------------------------------------------------------------------
(* The calls *)

CallResolve ==
    /\ op = "none"
    /\ \E b \in Bases, i \in Inputs :
        /\ op' = "resolve"
        /\ base' = b
        /\ input' = i
        /\ result' = resolve(b, i)
    /\ UNCHANGED <<created, removed, platform, chmode, permissions>>
    /\ UNCHANGED <<dirVars, hashVars, createVars>>

CallNormalizePath ==
    /\ op = "none"
    /\ \E p \in Inputs :
        /\ op' = "normalize_path"
        /\ base' = <<>>
        /\ input' = p
        /\ result' = Ok(normalize_path(p))
    /\ UNCHANGED <<created, removed, platform, chmode, permissions>>
    /\ UNCHANGED <<dirVars, hashVars, createVars>>

CallGetFilepath ==
    /\ op = "none"
    /\ \E p \in Inputs :
        /\ op' = "get_filepath"
        /\ base' = <<>>
        /\ input' = p
        /\ result' = get_filepath(p)
    /\ UNCHANGED <<created, removed, platform, chmode, permissions>>
    /\ UNCHANGED <<dirVars, hashVars, createVars>>

PathNext ==
    \/ CallResolve
    \/ CallNormalizePath
    \/ CallGetFilepath

----------------------------------------------------------------------------
(* get_dir_size: the filesystem it walks.  An entry is named by its path,  *)
(* the list of its names from the top.                                     *)
(*                                                                         *)
(*   d/            directory                                               *)
(*   d/f           regular file                                            *)
(*   d/s/          directory                                               *)
(*   d/s/g         regular file                                            *)
(*   d/s/m         regular file, or symbolic link to the ancestor d        *)
(*   d/s/e/        empty directory                                         *)
(*   w/            directory                                               *)
(*   w/h           regular file                                            *)
(*   w/k           symbolic link to the file d/s/g                         *)
(*   w/l           symbolic link to the directory d/s                      *)
(*   w/p           symbolic link to w/q                                    *)
(*   w/q           symbolic link to w/p                                    *)

MaxFileSize == 1

ND == <<"d">>
NF == <<"d", "f">>
NS == <<"d", "s">>
NG == <<"d", "s", "g">>
NM == <<"d", "s", "m">>
NE == <<"d", "s", "e">>
NW == <<"w">>
NH == <<"w", "h">>
NK == <<"w", "k">>
NL == <<"w", "l">>
NP == <<"w", "p">>
NQ == <<"w", "q">>
NX == <<"x">>

Nodes == {ND, NF, NS, NG, NM, NE, NW, NH, NK, NL, NP, NQ}
FlexNodes == {NM}
SizedNodes == {NF, NG, NM, NH}
StartPaths == {ND, NS, NE, NW, NL, NP, NF, NX}

Target(n) ==
    CASE n = NK -> NG [] n = NL -> NS [] n = NM -> ND [] n = NP -> NQ [] n = NQ -> NP

Kind(n) ==
    CASE n \in FlexNodes -> dkind[n]
      [] n \in {NK, NL, NP, NQ} -> "symlink"
      [] n \in {NF, NG, NH} -> "file"
      [] OTHER -> "dir"

\* st_size of lstat: the byte length of a file, the length of a link's target
LstatLen(n) ==
    CASE Kind(n) = "file" -> dsize[n]
      [] Kind(n) = "symlink" -> Len(Target(n))
      [] OTHER -> 0

ChildNames(n) == {Last(c) : c \in {c \in Nodes : Len(c) > 1 /\ Front(c) = n}}

\* the entry a path leads to, every symbolic link on the way followed (stat)
RECURSIVE Follow(_, _, _)
Follow(at, names, fuel) ==
    IF at \notin Nodes THEN None
    ELSE IF Kind(at) = "symlink"
    THEN IF fuel = 0 THEN None ELSE Follow(Target(at), names, fuel - 1)
    ELSE IF names = <<>> THEN Some(at)
    ELSE IF Kind(at) # "dir" THEN None
    ELSE Follow(Append(at, Head(names)), Tail(names), fuel)

NodeOf(path) == Follow(<<Head(path)>>, Tail(path), MaxSymlinks)

\* the entry a path leads to, the last name not followed (lstat)
LNodeOf(path) ==
    IF Len(path) = 1 THEN (IF path \in Nodes THEN Some(path) ELSE None)
    ELSE LET dir == NodeOf(Front(path))
         IN IF dir.some /\ Append(dir.val, Last(path)) \in Nodes
            THEN Some(Append(dir.val, Last(path)))
            ELSE None

\* tokio::fs::read_dir(path): opens the directory the path leads to
read_dir(path) ==
    LET n == NodeOf(path)
    IN IF ~n.some THEN Err("NotFound")
       ELSE IF Kind(n.val) # "dir" THEN Err("NotADirectory")
       ELSE Ok(ChildNames(n.val))

\* a metadata fetch that follows the link (stat in place of lstat)
MetadataFollowingLinks(path) ==
    LET n == NodeOf(path)
    IN [is_file |-> n.some /\ Kind(n.val) = "file",
        is_dir |-> n.some /\ Kind(n.val) = "dir",
        is_symlink |-> FALSE,
        len |-> IF n.some THEN LstatLen(n.val) ELSE 0]

\* DirEntry::metadata: the metadata of the entry itself, a link is not followed
EntryMetadata(path) ==
    LET n == LNodeOf(path)
    IN [is_file |-> Kind(n.val) = "file",
        is_dir |-> Kind(n.val) = "dir",
        is_symlink |-> Kind(n.val) = "symlink",
        len |-> LstatLen(n.val)]

\* the failure a filesystem call can end with whatever the tree holds
Injected == Err("PermissionDenied")

\* the `?` on an io::Result: the anyhow error made from the io::Error alone,
\* which holds the kind of the failure and no path
FromIoError(e) == [cause |-> e]

----------------------------------------------------------------------------
(* get_dir_size: the call, one action for each stretch between two awaits *)

\* the body of the inner loop that does not descend into directories
EntryBodyFlat(meta, path, tot, stk) ==
    IF ~meta.ok
    THEN [pc |-> "done", res |-> Err(FromIoError(meta.err)), total |-> tot, stack |-> stk]
    ELSE IF meta.val.is_file
    THEN [pc |-> "iter", res |-> None, total |-> tot + meta.val.len, stack |-> stk]
    ELSE [pc |-> "iter", res |-> None, total |-> tot, stack |-> stk]

\* the body of the inner loop that passes over an entry it cannot stat
EntryBodySkipsErrors(meta, path, tot, stk) ==
    IF ~meta.ok THEN [pc |-> "iter", res |-> None, total |-> tot, stack |-> stk]
    ELSE IF meta.val.is_file
    THEN [pc |-> "iter", res |-> None, total |-> tot + meta.val.len, stack |-> stk]
    ELSE IF meta.val.is_dir /\ ~meta.val.is_symlink
    THEN [pc |-> "iter", res |-> None, total |-> tot, stack |-> Append(stk, path)]
    ELSE [pc |-> "iter", res |-> None, total |-> tot, stack |-> stk]

\* the body of the inner loop that starts the sum over at each directory
EntryBodyRestartsSum(meta, path, tot, stk) ==
    IF ~meta.ok
    THEN [pc |-> "done", res |-> Err(FromIoError(meta.err)), total |-> tot, stack |-> stk]
    ELSE IF meta.val.is_file
    THEN [pc |-> "iter", res |-> None, total |-> tot + meta.val.len, stack |-> stk]
    ELSE IF meta.val.is_dir /\ ~meta.val.is_symlink
    THEN [pc |-> "iter", res |-> None, total |-> 0, stack |-> Append(stk, path)]
    ELSE [pc |-> "iter", res |-> None, total |-> tot, stack |-> stk]

\* the body of the inner loop that pushes a directory twice
EntryBodyPushesTwice(meta, path, tot, stk) ==
    IF ~meta.ok
    THEN [pc |-> "done", res |-> Err(FromIoError(meta.err)), total |-> tot, stack |-> stk]
    ELSE IF meta.val.is_file
    THEN [pc |-> "iter", res |-> None, total |-> tot + meta.val.len, stack |-> stk]
    ELSE IF meta.val.is_dir /\ ~meta.val.is_symlink
    THEN [pc |-> "iter", res |-> None, total |-> tot, stack |-> Append(Append(stk, path), path)]
    ELSE [pc |-> "iter", res |-> None, total |-> tot, stack |-> stk]

\* the body of the inner loop, from the result of entry.metadata().await on:
\* an error returns, a file adds its length, a directory that is no link is
\* pushed (the lengths of the model keep the u64 sum far from its limit)
EntryBody(meta, path, tot, stk) ==
    IF ~meta.ok
    THEN [pc |-> "done", res |-> Err(FromIoError(meta.err)), total |-> tot, stack |-> stk]
    ELSE IF meta.val.is_file
    THEN [pc |-> "iter", res |-> None, total |-> tot + meta.val.len, stack |-> stk]
    ELSE IF meta.val.is_dir /\ ~meta.val.is_symlink
    THEN [pc |-> "iter", res |-> None, total |-> tot, stack |-> Append(stk, path)]
    ELSE [pc |-> "iter", res |-> None, total |-> tot, stack |-> stk]

\* the paths the loop body has put on the stack
NewOnStack(before, after) == {after[i] : i \in (Len(before) + 1)..Len(after)}

\* get_dir_size(dir_path): total_size = 0, stack = [dir_path]
DirCall ==
    /\ dpc = "idle"
    /\ \E p \in StartPaths :
        /\ dpath' = p
        /\ stack' = <<p>>
        /\ pushed' = {p}
    /\ total_size' = 0
    /\ dpc' = "loop"
    /\ listed' = {}
    /\ summed' = {}
    /\ repeated' = FALSE
    /\ UNCHANGED <<dkind, dsize, cur, entries, entry, dresult, ioFailed>>
    /\ UNCHANGED <<pathVars, hashVars, createVars>>

\* stack.pop() is None: Ok(total_size)
DirReturn ==
    /\ dpc = "loop"
    /\ stack = <<>>
    /\ dresult' = Some(Ok(total_size))
    /\ dpc' = "done"
    /\ UNCHANGED <<dkind, dsize, dpath, stack, total_size, cur, entries, entry, ioFailed>>
    /\ UNCHANGED <<pushed, listed, summed, repeated>>
    /\ UNCHANGED <<pathVars, hashVars, createVars>>

\* stack.pop() is Some(path): read_dir(&path).await?
DirReadDir ==
    /\ dpc = "loop"
    /\ stack # <<>>
    /\ LET path == Last(stack)
       IN \E r \in {read_dir(path), Injected} :
            /\ stack' = Front(stack)
            /\ IF r.ok
               THEN /\ cur' = path
                    /\ entries' = r.val
                    /\ dpc' = "iter"
                    /\ listed' = listed \cup {NodeOf(path).val}
                    /\ repeated' = (repeated \/ NodeOf(path).val \in listed)
                    /\ UNCHANGED <<dresult, ioFailed>>
               ELSE /\ dresult' = Some(Err(FromIoError(r.err)))
                    /\ ioFailed' = Some([call |-> "read_dir", path |-> path, io |-> r.err])
                    /\ dpc' = "done"
                    /\ UNCHANGED <<cur, entries, listed, repeated>>
    /\ UNCHANGED <<dkind, dsize, dpath, total_size, entry, pushed, summed>>
    /\ UNCHANGED <<pathVars, hashVars, createVars>>

\* entries.next_entry().await?: an entry in whatever order the system lists
\* them, None when the stream is exhausted, or an error
DirNextEntry ==
    /\ dpc = "iter"
    /\ \/ /\ entries = {}
          /\ dpc' = "loop"
          /\ UNCHANGED <<entries, entry, dresult, ioFailed>>
       \/ \E e \in entries :
            /\ entry' = Append(cur, e)
            /\ entries' = entries \ {e}
            /\ dpc' = "meta"
            /\ UNCHANGED <<dresult, ioFailed>>
       \/ LET r == Injected
          IN /\ dresult' = Some(Err(FromIoError(r.err)))
             /\ ioFailed' = Some([call |-> "next_entry", path |-> cur, io |-> r.err])
             /\ dpc' = "done"
             /\ UNCHANGED <<entries, entry>>
    /\ UNCHANGED <<dkind, dsize, dpath, stack, total_size, cur>>
    /\ UNCHANGED <<pushed, listed, summed, repeated>>
    /\ UNCHANGED <<pathVars, hashVars, createVars>>

\* entry.metadata().await? and the rest of the loop body
DirEntryMetadata ==
    /\ dpc = "meta"
    /\ \E meta \in {Ok(EntryMetadata(entry)), Injected} :
        LET b == EntryBody(meta, entry, total_size, stack)
        IN /\ dpc' = b.pc
           /\ total_size' = b.total
           /\ stack' = b.stack
           /\ dresult' = IF b.res = None THEN dresult ELSE Some(b.res)
           /\ ioFailed' = IF meta.ok THEN ioFailed
                          ELSE Some([call |-> "metadata", path |-> entry, io |-> meta.err])
           /\ pushed' = pushed \cup NewOnStack(stack, b.stack)
           /\ summed' = IF meta.ok /\ meta.val.is_file THEN summed \cup {LNodeOf(entry).val}
                         ELSE summed
           /\ repeated' = \/ repeated
                          \/ NewOnStack(stack, b.stack) \cap pushed # {}
                          \/ Len(b.stack) - Len(stack) > Cardinality(NewOnStack(stack, b.stack))
                          \/ meta.ok /\ meta.val.is_file /\ LNodeOf(entry).val \in summed
    /\ UNCHANGED <<dkind, dsize, dpath, cur, entries, entry, listed>>
    /\ UNCHANGED <<pathVars, hashVars, createVars>>

DirNext ==
    \/ DirCall
    \/ DirReturn
    \/ DirReadDir
    \/ DirNextEntry
    \/ DirEntryMetadata

----------------------------------------------------------------------------
(* hash and hash_sync.  The files are those of the path model's tree; the  *)
(* digest is a 16-bit stand-in for SHA-256 with the same interface: a      *)
(* state, update over a slice, finalize, and the lowercase hex rendering.  *)

MaxFileLen == 3
BufLen == 2
\* the writes of another process during one call are bounded by the number of
\* further contents they may give the file
MaxWrites == 1

Bytes == {0, 1}
Contents == UNION {[1..k -> Bytes] : k \in 0..MaxFileLen}

FA == <<Na, Na>>
FB == <<Na, NaaB>>
HashFiles == {FA, FB}

\*  a     the file /a/a
\*  .a    a link to the file /a/aa\
\*  ..    the directory /
\*  ..a   a link to nothing
HashArgs == {<<"a">>, <<Dot, "a">>, <<Dot, Dot>>, <<Dot, Dot, "a">>}
HashModes == {"hash", "hash_sync"}

DigestInit == 5381
DigestModulus == 65536
HexWidth == 4

\* Sha256::new()
Sha256New == DigestInit

RECURSIVE Sha256Update(_, _)
\* hasher.update(slice): the bytes of the slice are absorbed in order
Sha256Update(h, slice) ==
    IF slice = <<>> THEN h
    ELSE Sha256Update((h * 33 + Head(slice) + 1) % DigestModulus, Tail(slice))

HexDigit(d) == SubSeq(<<"0", "1", "2", "3", "4", "5", "6", "7",
                        "8", "9", "a", "b", "c", "d", "e", "f">>, d + 1, d + 1)

RECURSIVE Hex(_, _)
\* format!("{:x}", hasher.finalize()): lowercase hex, most significant digit
\* first, of the fixed width of the digest
Hex(v, width) ==
    IF width = 0 THEN <<>> ELSE Hex(v \div 16, width - 1) \o HexDigit(v % 16)

\* the entry a canonical path text names
EntryOf(text) ==
    IF \E e \in DOMAIN PathFs \cup {<<>>} : CanonStr(e) = text
    THEN Some(CHOOSE e \in DOMAIN PathFs \cup {<<>>} : CanonStr(e) = text)
    ELSE None

\* File::open(&path): a handle on the file, or on the directory, at the path
FileOpen(text) ==
    LET e == EntryOf(text)
    IN IF ~e.some THEN Err("NotFound") ELSE Ok(e.val)

\* the bytes an open handle still has to give: those of a regular file
Remaining(e, pos) ==
    IF e \in HashFiles /\ Len(hcontent[e]) > pos THEN Len(hcontent[e]) - pos ELSE 0

Min(a, b) == IF a <= b THEN a ELSE b

\* file.read(&mut buffer): any number of bytes from 1 to what the buffer and
\* the file allow, 0 at the end of the file, an error on a directory
ReadResults(e, pos) ==
    IF e \notin HashFiles THEN {Err("IsADirectory")}
    ELSE IF Remaining(e, pos) = 0 THEN {Ok(0), Err("Interrupted")}
    ELSE {Ok(n) : n \in 1..Min(BufLen, Remaining(e, pos))} \cup {Err("Interrupted")}

\* a read of the file that starts over at its first byte
FillFromStart(buf, e, pos, n) ==
    [i \in 1..BufLen |-> IF i <= n THEN hcontent[e][i] ELSE buf[i]]

\* the buffer after a read of n bytes at pos: its first n bytes are the file's
Fill(buf, e, pos, n) ==
    [i \in 1..BufLen |-> IF i <= n THEN hcontent[e][pos + i] ELSE buf[i]]

\* an update that starts the hash over with each chunk
UpdateFromNew(h, buf, bytes_read) == Sha256Update(Sha256New, SubSeq(buf, 1, bytes_read))

\* an update with the whole buffer, not the part the read filled
UpdateWholeBuffer(h, buf, bytes_read) == Sha256Update(h, buf)

\* hasher.update(&buffer[..bytes_read])
HasherUpdate(h, buf, bytes_read) == Sha256Update(h, SubSeq(buf, 1, bytes_read))

\* the call returns res: the file handle, a local of the call, is dropped
HashReturns(mode, arg, path, res) ==
    /\ hresult' = Some([mode |-> mode, arg |-> arg, path |-> path, result |-> res])
    /\ hprev' = hresult
    /\ hpc' = IF hresult.some THEN "done" ELSE "idle"
    /\ hfile' = None

\* hash(filepath) / hash_sync(filepath) up to the open: get_filepath(filepath)?
\* and the test for an empty path
HashCall ==
    /\ hpc = "idle"
    /\ \E mode \in HashModes, arg \in HashArgs :
        LET path == get_filepath(arg)
        IN /\ hmode' = mode
           /\ harg' = arg
           /\ hheld' = IF path.ok /\ EntryOf(path.val).some
                           /\ EntryOf(path.val).val \in HashFiles
                        THEN {hcontent[EntryOf(path.val).val]}
                        ELSE {}
           /\ IF ~path.ok
              THEN /\ HashReturns(mode, arg, <<>>, Err([context |-> arg, cause |-> path.err]))
                   /\ hpath' = <<>>
                   /\ hfailed' = Some([call |-> "get_filepath", io |-> path.err])
              ELSE IF path.val = <<>>
              THEN /\ HashReturns(mode, arg, <<>>, Err([context |-> arg, cause |-> "EmptyPath"]))
                   /\ hpath' = <<>>
                   /\ hfailed' = None
              ELSE /\ hpath' = path.val
                   /\ hpc' = "open"
                   /\ hfailed' = None
                   /\ UNCHANGED <<hresult, hprev, hfile>>
    /\ hread' = <<>>
    /\ UNCHANGED <<hcontent, hpos, hasher, buffer>>
    /\ UNCHANGED <<pathVars, dirVars, createVars>>

\* File::open(&path), Sha256::new(), buffer = [0; 8192]
HashOpen ==
    /\ hpc = "open"
    /\ \E f \in {FileOpen(hpath), Err("PermissionDenied")} :
        IF f.ok
        THEN /\ hfile' = Some(f.val)
             /\ hpos' = 0
             /\ hasher' = Sha256New
             /\ buffer' = [i \in 1..BufLen |-> 0]
             /\ hpc' = "read"
             /\ UNCHANGED <<hresult, hprev, hfailed>>
        ELSE /\ HashReturns(hmode, harg, hpath, Err([context |-> hpath, cause |-> f.err]))
             /\ hfailed' = Some([call |-> "open", io |-> f.err])
             /\ UNCHANGED <<hpos, hasher, buffer>>
    /\ UNCHANGED <<hcontent, hmode, harg, hpath, hread, hheld>>
    /\ UNCHANGED <<pathVars, dirVars, createVars>>

\* a loop that leaves on a failed read as it does at the end of the file
LoopStepBreaksOnError(r, path, h) ==
    IF ~r.ok \/ r.val = 0 THEN [returns |-> TRUE, res |-> Ok(Hex(h, HexWidth))]
    ELSE [returns |-> FALSE, res |-> None]

\* what the loop does with the result r of a read: `?` returns the error,
\* 0 bytes break the loop and the digest is returned, else the loop goes on
LoopStep(r, path, h) ==
    IF ~r.ok THEN [returns |-> TRUE, res |-> Err([context |-> path, cause |-> r.err])]
    ELSE IF r.val = 0 THEN [returns |-> TRUE, res |-> Ok(Hex(h, HexWidth))]
    ELSE [returns |-> FALSE, res |-> None]

\* one iteration of the loop: file.read(&mut buffer)?, break on 0, update
HashRead ==
    /\ hpc = "read"
    /\ \E r \in ReadResults(hfile.val, hpos) :
        LET step == LoopStep(r, hpath, hasher)
        IN /\ hfailed' = IF r.ok THEN hfailed ELSE Some([call |-> "read", io |-> r.err])
           /\ IF step.returns
              THEN /\ HashReturns(hmode, harg, hpath, step.res)
                   /\ UNCHANGED <<hpos, hasher, buffer, hread>>
              ELSE LET filled == Fill(buffer, hfile.val, hpos, r.val)
                   IN /\ buffer' = filled
                      /\ hasher' = HasherUpdate(hasher, filled, r.val)
                      /\ hpos' = hpos + r.val
                      /\ hread' = hread \o SubSeq(filled, 1, r.val)
                      /\ UNCHANGED <<hpc, hresult, hprev, hfile>>
    /\ UNCHANGED <<hcontent, hmode, harg, hpath, hheld>>
    /\ UNCHANGED <<pathVars, dirVars, createVars>>

\* another process overwrites bytes of the file in place while the call is
\* under way
FileWrite ==
    /\ hpc \in {"open", "read"}
    /\ EntryOf(hpath).some
    /\ EntryOf(hpath).val \in HashFiles
    /\ Cardinality(hheld) <= MaxWrites
    /\ \E c \in {c \in Contents : Len(c) = Len(hcontent[EntryOf(hpath).val])}
                \ {hcontent[EntryOf(hpath).val]} :
        /\ hcontent' = [hcontent EXCEPT ![EntryOf(hpath).val] = c]
        /\ hheld' = hheld \cup {c}
    /\ UNCHANGED <<hpc, hmode, harg, hpath, hpos, hasher, buffer, hresult, hprev,
                   hfile, hfailed, hread>>
    /\ UNCHANGED <<pathVars, dirVars, createVars>>

\* a first call of hash or hash_sync
HashFirstCall == ~hresult.some /\ HashCall

HashConcurrentNext ==
    \/ HashFirstCall
    \/ HashOpen
    \/ HashRead
    \/ FileWrite

----------------------------------------------------------------------------
(* Cancellation.  The caller of a suspending function holds its future and *)
(* cancels the call by dropping the future while it is suspended at an     *)
(* await; the drop runs no more of the function and drops its locals.      *)

\* a cancellation of hash that leaves the file open
HashCancelKeepsFile ==
    /\ hmode = "hash"
    /\ hpc \in {"open", "read"}
    /\ hpc' = "cancelled"
    /\ UNCHANGED <<hcontent, hmode, harg, hpath, hpos, hasher, buffer, hresult, hprev,
                   hfile, hfailed, hread, hheld>>
    /\ UNCHANGED <<pathVars, dirVars, createVars>>

\* hash is dropped at File::open(&path).await or at file.read(..).await: file,
\* hasher and buffer are dropped with it and nothing is returned
HashCancel ==
    /\ hmode = "hash"
    /\ hpc \in {"open", "read"}
    /\ hpc' = "cancelled"
    /\ hfile' = None
    /\ UNCHANGED <<hcontent, hmode, harg, hpath, hpos, hasher, buffer, hresult, hprev,
                   hfailed, hread, hheld>>
    /\ UNCHANGED <<pathVars, dirVars, createVars>>

\* get_dir_size is dropped at read_dir(&path).await, at next_entry().await or
\* at entry.metadata().await: total_size and stack are dropped with it and
\* nothing is returned
DirCancel ==
    /\ \/ dpc = "loop" /\ stack # <<>>
       \/ dpc \in {"iter", "meta"}
    /\ dpc' = "cancelled"
    /\ UNCHANGED <<dkind, dsize, dpath, stack, total_size, cur, entries, entry,
                   dresult, ioFailed, pushed, listed, summed, repeated>>
    /\ UNCHANGED <<pathVars, hashVars, createVars>>

\* the one call of a behaviour is a call of get_dir_size
DirOnlyCall == hpc = "idle" /\ ~hresult.some /\ DirCall

\* the one call of a behaviour is a call of hash
HashOnlyCall == dpc = "idle" /\ ~hresult.some /\ HashCall /\ hmode' = "hash"

CancelNext ==
    \/ DirOnlyCall
    \/ DirReturn
    \/ DirReadDir
    \/ DirNextEntry
    \/ DirEntryMetadata
    \/ DirCancel
    \/ HashOnlyCall
    \/ HashOpen
    \/ HashRead
    \/ HashCancel

HashNext ==
    \/ HashCall
    \/ HashOpen
    \/ HashRead

----------------------------------------------------------------------------
(* mkdir_sync, rmdir_sync, unlink_sync on the tree of the path model.  The  *)
(* paths they are called with end in a name: no trailing separator, no     *)
(* final "." or "..".                                                      *)

FsArgs ==
    {s \in Inputs : /\ s # <<>>
                    /\ ~MustBeDir(s)
                    /\ Last(Components(s)).kind = "Normal"}

\* the directory the last name of s is looked up in
ParentOf(s) ==
    LET dir == Walk(Cwd, Front(Components(s)), MaxSymlinks)
    IN IF ~dir.ok THEN dir
       ELSE IF ~IsDirAt(dir.val) THEN Err("NotADirectory")
       ELSE dir

\* lstat: the entry s names, its last name not followed
Lstat(s) ==
    LET dir == ParentOf(s)
    IN IF ~dir.ok THEN dir
       ELSE IF Append(dir.val, Last(Components(s)).name) \notin DOMAIN PathFs
       THEN Err("NotFound")
       ELSE Ok(Append(dir.val, Last(Components(s)).name))

\* Path::exists: stat succeeds, every link followed
Exists(s) == Walk(Cwd, Components(s), MaxSymlinks).ok

\* the entries below a directory
Subtree(d) == {e \in DOMAIN PathFs : Len(e) > Len(d) /\ SubSeq(e, 1, Len(d)) = d}

\* std::fs::create_dir (mkdir): one directory, in a parent that exists
create_dir(s) ==
    IF Lstat(s).ok THEN [res |-> Err([cause |-> "AlreadyExists"]), made |-> {}]
    ELSE IF ~ParentOf(s).ok THEN [res |-> Err([cause |-> ParentOf(s).err]), made |-> {}]
    ELSE [res |-> Ok(<<>>), made |-> {Append(ParentOf(s).val, Last(Components(s)).name)}]

\* std::fs::remove_dir_all: a link is unlinked, a directory goes with all that
\* is below it, a file is refused
remove_dir_all(s) ==
    LET e == Lstat(s)
    IN IF ~e.ok THEN [res |-> Err([cause |-> e.err]), gone |-> {}]
       ELSE IF PathFs[e.val].kind = "symlink" THEN [res |-> Ok(<<>>), gone |-> {e.val}]
       ELSE IF PathFs[e.val].kind = "dir"
       THEN [res |-> Ok(<<>>), gone |-> {e.val} \cup Subtree(e.val)]
       ELSE [res |-> Err([cause |-> "NotADirectory"]), gone |-> {}]

\* std::fs::remove_file (unlink) of a canonical path
remove_file(text) ==
    LET e == EntryOf(text)
    IN IF ~e.some THEN [res |-> Err([cause |-> "NotFound"]), gone |-> {}]
       ELSE IF IsDirAt(e.val) THEN [res |-> Err([cause |-> "IsADirectory"]), gone |-> {}]
       ELSE [res |-> Ok(<<>>), gone |-> {e.val}]

\* mkdir_sync: dir::create(path, false), which is create_dir(path) when it is
\* not asked to erase
mkdir_sync(path) == create_dir(path)

\* rmdir_sync: dir::remove(path), which is remove_dir_all(path) when the path
\* exists and Ok(()) when it does not
rmdir_sync(path) ==
    IF Exists(path) THEN remove_dir_all(path)
    ELSE [res |-> Ok(<<>>), gone |-> {}]

\* unlink_sync: get_filepath(filepath)?, the test for an empty path,
\* remove_file(path)
unlink_sync(filepath) ==
    LET path == get_filepath(filepath)
    IN IF ~path.ok
       THEN [res |-> Err([context |-> filepath, cause |-> path.err.cause]), gone |-> {}]
       ELSE IF path.val = <<>>
       THEN [res |-> Err([context |-> filepath, cause |-> "EmptyPath"]), gone |-> {}]
       ELSE LET r == remove_file(path.val)
            IN IF r.res.ok THEN r
               ELSE [res |-> Err([context |-> filepath, cause |-> r.res.err.cause]),
                     gone |-> {}]

CallMkdirSync ==
    /\ op = "none"
    /\ \E p \in FsArgs :
        /\ op' = "mkdir_sync"
        /\ input' = p
        /\ result' = mkdir_sync(p).res
        /\ created' = mkdir_sync(p).made
    /\ UNCHANGED <<base, removed, platform, chmode, permissions>>
    /\ UNCHANGED <<dirVars, hashVars, createVars>>

CallRmdirSync ==
    /\ op = "none"
    /\ \E p \in FsArgs :
        /\ op' = "rmdir_sync"
        /\ input' = p
        /\ result' = rmdir_sync(p).res
        /\ removed' = rmdir_sync(p).gone
    /\ UNCHANGED <<base, created, platform, chmode, permissions>>
    /\ UNCHANGED <<dirVars, hashVars, createVars>>

CallUnlinkSync ==
    /\ op = "none"
    /\ \E p \in FsArgs :
        /\ op' = "unlink_sync"
        /\ input' = p
        /\ result' = unlink_sync(p).res
        /\ removed' = unlink_sync(p).gone
    /\ UNCHANGED <<base, created, platform, chmode, permissions>>
    /\ UNCHANGED <<dirVars, hashVars, createVars>>

FsNext ==
    \/ CallMkdirSync
    \/ CallRmdirSync
    \/ CallUnlinkSync

----------------------------------------------------------------------------
(* chmod_sync.  The mode is a text of at most MaxModeLen characters, the    *)
(* target is the file /a/a or a path where nothing exists.                 *)

MaxModeLen == 3

ModeChars == {"0", "2", "4", "7", "8"}
Modes == UNION {[1..n -> ModeChars] : n \in 0..MaxModeLen}
ChmodPaths == {<<"a">>, <<"a", "a", "a">>}

\* the value of an octal digit, None for a character that is none
OctalDigit(c) ==
    CASE c = "0" -> Some(0)
      [] c = "2" -> Some(2)
      [] c = "4" -> Some(4)
      [] c = "7" -> Some(7)
      [] OTHER -> None

\* u32::from_str_radix(mode, 8) for the texts of the model, which are too
\* short to overflow
RECURSIVE from_str_radix(_)
from_str_radix(s) ==
    IF s = <<>> THEN Err("Empty")
    ELSE IF ~OctalDigit(Last(s)).some THEN Err("InvalidDigit")
    ELSE IF Len(s) = 1 THEN Ok(OctalDigit(Last(s)).val)
    ELSE LET front == from_str_radix(Front(s))
         IN IF ~front.ok THEN front
            ELSE Ok(front.val * 8 + OctalDigit(Last(s)).val)

\* a & b on unsigned integers
RECURSIVE BitAnd(_, _)
BitAnd(a, b) ==
    IF a = 0 \/ b = 0 THEN 0
    ELSE (a % 2) * (b % 2) + 2 * BitAnd(a \div 2, b \div 2)

\* 0o444, 0o222 and 0o7777
ReadBits == 292
WriteBits == 146
ModeBits == 4095

\* Permissions::from_mode(mode) as chmod stores it; readonly() is "no write bit"
UnixPermissions(n) ==
    [readonly |-> BitAnd(n, WriteBits) = 0, bits |-> BitAnd(n, ModeBits)]

\* a flag that is set when some bit of 0o444 is set
SetReadonlyWhenBitsSet(perm, n) ==
    [perm EXCEPT !.readonly = (BitAnd(n, ReadBits) # 0)]

\* permissions.set_readonly(mode & 0o444 == 0)
SetReadonly(perm, n) ==
    [perm EXCEPT !.readonly = (BitAnd(n, ReadBits) = 0)]

\* chmod_sync(mode, file_path) as built for the platform
chmod_sync(m, file_path, current) ==
    LET n == from_str_radix(m)
    IN IF ~n.ok THEN [res |-> Err([context |-> m, cause |-> "InvalidMode"]), perm |-> current]
       ELSE IF ~Exists(file_path)
       THEN [res |-> Err([cause |-> "NotFound"]), perm |-> current]
       ELSE IF platform = "unix"
       THEN [res |-> Ok(<<>>), perm |-> UnixPermissions(n.val)]
       ELSE [res |-> Ok(<<>>), perm |-> SetReadonly(current, n.val)]

CallChmodSync ==
    /\ op = "none"
    /\ \E m \in Modes, p \in ChmodPaths :
        /\ op' = "chmod_sync"
        /\ chmode' = m
        /\ input' = p
        /\ result' = chmod_sync(m, p, permissions).res
        /\ permissions' = chmod_sync(m, p, permissions).perm
    /\ UNCHANGED <<base, created, removed, platform>>
    /\ UNCHANGED <<dirVars, hashVars, createVars>>

ChmodNext == CallChmodSync

----------------------------------------------------------------------------
(* create_file_sync, step by step, on a tree of its own below the working  *)
(* directory, with another process that creates files in the same tree.    *)
(* An entry of the tree is named by the names on the way to it.            *)

FileOf(c) == [kind |-> "file", content |-> c]

\* what a file holds when a call begins or when another process has written it
CreateContents == {c \in Contents : Len(c) <= 1}

\* the trees a call may find: nothing, a, and a/a, each a directory or a file
CreateTrees ==
    {t \in UNION {[D -> {Dir} \cup {FileOf(c) : c \in CreateContents}] :
                    D \in SUBSET {<<Na>>, <<Na, Na>>}} :
        \A n \in DOMAIN t :
            Len(n) > 1 => (Front(n) \in DOMAIN t /\ t[Front(n)].kind = "dir")}

\* the paths create_file_sync is called with: relative, made of names only,
\* the separators written either way
CreateArgs ==
    {s \in Inputs \cup {<<"a", Backslash, "a", Sep, "a">>} :
        LET n == normalize_path(s)
        IN /\ n # <<>>
           /\ ~HasRoot(n)
           /\ ~MustBeDir(n)
           /\ \A i \in 1..Len(Components(n)) : Components(n)[i].kind = "Normal"}

\* the entry a path of names leads to
CNode(s) == [i \in 1..Len(Components(s)) |-> Components(s)[i].name]

\* stat: "dir", "file", or "none" when there is no such entry
CKind(t, n) ==
    IF n = <<>> THEN "dir" ELSE IF n \in DOMAIN t THEN t[n].kind ELSE "none"

\* Path::exists, Path::is_file, Path::is_dir; the empty path names nothing
PathExists(t, s) == s # <<>> /\ CKind(t, CNode(s)) # "none"
PathIsFile(t, s) == s # <<>> /\ CKind(t, CNode(s)) = "file"
PathIsDir(t, s) == s # <<>> /\ CKind(t, CNode(s)) = "dir"

\* create_dir_all: Ok on the empty path, else every missing directory on the
\* way is made; a file on the way or at the end is an error
create_dir_all(t, s) ==
    LET n == CNode(s)
        ups == {SubSeq(n, 1, k) : k \in 1..Len(n)}
    IN IF \E u \in ups \ {n} : CKind(t, u) = "file"
       THEN [res |-> Err("NotADirectory"), tree |-> t]
       ELSE IF CKind(t, n) = "file"
       THEN [res |-> Err("AlreadyExists"), tree |-> t]
       ELSE [res |-> Ok(<<>>),
             tree |-> [m \in DOMAIN t \cup ups |-> IF m \in DOMAIN t THEN t[m] ELSE Dir]]

\* File::create: open for writing, create if missing, truncate if present
FileCreate(t, s) ==
    LET n == CNode(s)
    IN IF CKind(t, Front(n)) = "none" THEN [res |-> Err("NotFound"), tree |-> t]
       ELSE IF CKind(t, Front(n)) = "file" THEN [res |-> Err("NotADirectory"), tree |-> t]
       ELSE IF CKind(t, n) = "dir" THEN [res |-> Err("IsADirectory"), tree |-> t]
       ELSE [res |-> Ok(<<>>),
             tree |-> [m \in DOMAIN t \cup {n} |-> IF m = n THEN FileOf(<<>>) ELSE t[m]]]

\* create_file_sync(filepath) up to path_obj.exists()
CreateFileCall ==
    /\ cpc = "idle"
    /\ \E filepath \in CreateArgs :
        /\ cpath' = normalize_path(filepath)
        /\ cpc' = IF PathExists(cfs, normalize_path(filepath)) THEN "is_file" ELSE "parent"
    /\ cfs0' = cfs
    /\ UNCHANGED <<cfs, cresult, cwrites>>
    /\ UNCHANGED <<pathVars, dirVars, hashVars>>

\* return if path_obj.is_file() { Ok(()) } else { Err(..) }
CreateIsFile ==
    /\ cpc = "is_file"
    /\ cresult' = IF PathIsFile(cfs, cpath) THEN Some(Ok(<<>>))
                  ELSE Some(Err([context |-> cpath, cause |-> "NotAFile"]))
    /\ cpc' = "done"
    /\ UNCHANGED <<cpath, cfs, cfs0, cwrites>>
    /\ UNCHANGED <<pathVars, dirVars, hashVars>>

\* if let Some(parent) = path_obj.parent() { if !parent.exists() ..
CreateParentExists ==
    /\ cpc = "parent"
    /\ cpc' = IF ~Parent(cpath).some THEN "create"
              ELSE IF ~PathExists(cfs, Parent(cpath).val) THEN "mkdirs"
              ELSE "parent_is_dir"
    /\ UNCHANGED <<cpath, cfs, cfs0, cresult, cwrites>>
    /\ UNCHANGED <<pathVars, dirVars, hashVars>>

\* create_dir_all(parent).with_context(..)?
CreateDirAll ==
    /\ cpc = "mkdirs"
    /\ LET r == create_dir_all(cfs, Parent(cpath).val)
       IN /\ cfs' = r.tree
          /\ IF r.res.ok
             THEN cpc' = "create" /\ UNCHANGED cresult
             ELSE /\ cpc' = "done"
                  /\ cresult' = Some(Err([context |-> Parent(cpath).val,
                                          cause |-> r.res.err]))
    /\ UNCHANGED <<cpath, cfs0, cwrites>>
    /\ UNCHANGED <<pathVars, dirVars, hashVars>>

\* else if !parent.is_dir() { return Err(..) }
CreateParentIsDir ==
    /\ cpc = "parent_is_dir"
    /\ IF PathIsDir(cfs, Parent(cpath).val)
       THEN cpc' = "create" /\ UNCHANGED cresult
       ELSE /\ cpc' = "done"
            /\ cresult' = Some(Err([context |-> Parent(cpath).val,
                                    cause |-> "ParentNotADirectory"]))
    /\ UNCHANGED <<cpath, cfs, cfs0, cwrites>>
    /\ UNCHANGED <<pathVars, dirVars, hashVars>>

\* File::create(path_obj).map_err(..)?; Ok(())
CreateFile ==
    /\ cpc = "create"
    /\ LET r == FileCreate(cfs, cpath)
       IN /\ cfs' = r.tree
          /\ cresult' = IF r.res.ok THEN Some(Ok(<<>>))
                        ELSE Some(Err([context |-> cpath, cause |-> r.res.err]))
    /\ cpc' = "done"
    /\ UNCHANGED <<cpath, cfs0, cwrites>>
    /\ UNCHANGED <<pathVars, dirVars, hashVars>>

\* another process creates the file of the call, which is not there, in a
\* directory that is, and writes to it, while the call is under way
OtherCreatesFile ==
    /\ cpc \notin {"idle", "done"}
    /\ cwrites < MaxWrites
    /\ CKind(cfs, CNode(cpath)) = "none"
    /\ CKind(cfs, Front(CNode(cpath))) = "dir"
    /\ \E c \in CreateContents \ {<<>>} :
        cfs' = [m \in DOMAIN cfs \cup {CNode(cpath)} |->
                   IF m \in DOMAIN cfs THEN cfs[m] ELSE FileOf(c)]
    /\ cwrites' = cwrites + 1
    /\ UNCHANGED <<cpc, cpath, cfs0, cresult>>
    /\ UNCHANGED <<pathVars, dirVars, hashVars>>

CreateNext ==
    \/ CreateFileCall
    \/ CreateIsFile
    \/ CreateParentExists
    \/ CreateDirAll
    \/ CreateParentIsDir
    \/ CreateFile
    \/ OtherCreatesFile

----------------------------------------------------------------------------
(* The specifications *)

\* no call of a path function has been made
PathInit ==
    /\ op = "none"
    /\ base = <<>>
    /\ input = <<>>
    /\ result = Ok(<<>>)
    /\ created = {}
    /\ removed = {}
    /\ platform = "unix"
    /\ chmode = <<>>
    /\ permissions = [readonly |-> FALSE, bits |-> 0]
    /\ dkind = [n \in FlexNodes |-> "file"]
    /\ dsize = [n \in SizedNodes |-> 0]
    /\ dpc = "idle"
    /\ dpath = <<>>
    /\ stack = <<>>
    /\ total_size = 0
    /\ cur = <<>>
    /\ entries = {}
    /\ entry = <<>>
    /\ dresult = None
    /\ ioFailed = None
    /\ pushed = {}
    /\ listed = {}
    /\ summed = {}
    /\ repeated = FALSE
    /\ hcontent = [f \in HashFiles |-> <<>>]
    /\ hpc = "idle"
    /\ hmode = "hash"
    /\ harg = <<>>
    /\ hpath = <<>>
    /\ hpos = 0
    /\ hasher = Sha256New
    /\ buffer = [i \in 1..BufLen |-> 0]
    /\ hresult = None
    /\ hprev = None
    /\ hfile = None
    /\ hfailed = None
    /\ hread = <<>>
    /\ hheld = {}
    /\ cpc = "idle"
    /\ cpath = <<>>
    /\ cfs = <<>>
    /\ cfs0 = <<>>
    /\ cresult = None
    /\ cwrites = 0

SpecPath == PathInit /\ [][PathNext]_vars

\* one call of mkdir_sync, rmdir_sync or unlink_sync on the tree of the path model
SpecFsOps == PathInit /\ [][FsNext]_vars

\* a build for either platform, the file /a/a read-only or writable, no call made
ChmodInit ==
    /\ op = "none"
    /\ base = <<>>
    /\ input = <<>>
    /\ result = Ok(<<>>)
    /\ created = {}
    /\ removed = {}
    /\ platform \in {"unix", "windows"}
    /\ chmode = <<>>
    /\ permissions \in IF platform = "unix"
                      THEN {UnixPermissions(n) : n \in {0, ReadBits, ReadBits + WriteBits}}
                      ELSE {[readonly |-> r, bits |-> 0] : r \in BOOLEAN}
    /\ dkind = [n \in FlexNodes |-> "file"]
    /\ dsize = [n \in SizedNodes |-> 0]
    /\ dpc = "idle"
    /\ dpath = <<>>
    /\ stack = <<>>
    /\ total_size = 0
    /\ cur = <<>>
    /\ entries = {}
    /\ entry = <<>>
    /\ dresult = None
    /\ ioFailed = None
    /\ pushed = {}
    /\ listed = {}
    /\ summed = {}
    /\ repeated = FALSE
    /\ hcontent = [f \in HashFiles |-> <<>>]
    /\ hpc = "idle"
    /\ hmode = "hash"
    /\ harg = <<>>
    /\ hpath = <<>>
    /\ hpos = 0
    /\ hasher = Sha256New
    /\ buffer = [i \in 1..BufLen |-> 0]
    /\ hresult = None
    /\ hprev = None
    /\ hfile = None
    /\ hfailed = None
    /\ hread = <<>>
    /\ hheld = {}
    /\ cpc = "idle"
    /\ cpath = <<>>
    /\ cfs = <<>>
    /\ cfs0 = <<>>
    /\ cresult = None
    /\ cwrites = 0

\* one call of chmod_sync
SpecChmod == ChmodInit /\ [][ChmodNext]_vars

\* any filesystem of the walker's model, no call of get_dir_size made yet
DirInit ==
    /\ op = "none"
    /\ base = <<>>
    /\ input = <<>>
    /\ result = Ok(<<>>)
    /\ created = {}
    /\ removed = {}
    /\ platform = "unix"
    /\ chmode = <<>>
    /\ permissions = [readonly |-> FALSE, bits |-> 0]
    /\ dkind \in [FlexNodes -> {"file", "symlink"}]
    /\ dsize \in [SizedNodes -> 0..MaxFileSize]
    /\ dpc = "idle"
    /\ dpath = <<>>
    /\ stack = <<>>
    /\ total_size = 0
    /\ cur = <<>>
    /\ entries = {}
    /\ entry = <<>>
    /\ dresult = None
    /\ ioFailed = None
    /\ pushed = {}
    /\ listed = {}
    /\ summed = {}
    /\ repeated = FALSE
    /\ hcontent = [f \in HashFiles |-> <<>>]
    /\ hpc = "idle"
    /\ hmode = "hash"
    /\ harg = <<>>
    /\ hpath = <<>>
    /\ hpos = 0
    /\ hasher = Sha256New
    /\ buffer = [i \in 1..BufLen |-> 0]
    /\ hresult = None
    /\ hprev = None
    /\ hfile = None
    /\ hfailed = None
    /\ hread = <<>>
    /\ hheld = {}
    /\ cpc = "idle"
    /\ cpath = <<>>
    /\ cfs = <<>>
    /\ cfs0 = <<>>
    /\ cresult = None
    /\ cwrites = 0

SpecDirSize == DirInit /\ [][DirNext]_vars

\* any bytes in the two files, no call of hash or hash_sync made yet
HashInit ==
    /\ op = "none"
    /\ base = <<>>
    /\ input = <<>>
    /\ result = Ok(<<>>)
    /\ created = {}
    /\ removed = {}
    /\ platform = "unix"
    /\ chmode = <<>>
    /\ permissions = [readonly |-> FALSE, bits |-> 0]
    /\ dkind = [n \in FlexNodes |-> "file"]
    /\ dsize = [n \in SizedNodes |-> 0]
    /\ dpc = "idle"
    /\ dpath = <<>>
    /\ stack = <<>>
    /\ total_size = 0
    /\ cur = <<>>
    /\ entries = {}
    /\ entry = <<>>
    /\ dresult = None
    /\ ioFailed = None
    /\ pushed = {}
    /\ listed = {}
    /\ summed = {}
    /\ repeated = FALSE
    /\ hcontent \in [HashFiles -> Contents]
    /\ hpc = "idle"
    /\ hmode = "hash"
    /\ harg = <<>>
    /\ hpath = <<>>
    /\ hpos = 0
    /\ hasher = Sha256New
    /\ buffer = [i \in 1..BufLen |-> 0]
    /\ hresult = None
    /\ hprev = None
    /\ hfile = None
    /\ hfailed = None
    /\ hread = <<>>
    /\ hheld = {}
    /\ cpc = "idle"
    /\ cpath = <<>>
    /\ cfs = <<>>
    /\ cfs0 = <<>>
    /\ cresult = None
    /\ cwrites = 0

SpecHash == HashInit /\ [][HashNext]_vars

\* no call of hash or hash_sync has been made; the call to come reads one file,
\* so the files start with the same content
HashConcurrentInit ==
    /\ op = "none"
    /\ base = <<>>
    /\ input = <<>>
    /\ result = Ok(<<>>)
    /\ created = {}
    /\ removed = {}
    /\ platform = "unix"
    /\ chmode = <<>>
    /\ permissions = [readonly |-> FALSE, bits |-> 0]
    /\ dkind = [n \in FlexNodes |-> "file"]
    /\ dsize = [n \in SizedNodes |-> 0]
    /\ dpc = "idle"
    /\ dpath = <<>>
    /\ stack = <<>>
    /\ total_size = 0
    /\ cur = <<>>
    /\ entries = {}
    /\ entry = <<>>
    /\ dresult = None
    /\ ioFailed = None
    /\ pushed = {}
    /\ listed = {}
    /\ summed = {}
    /\ repeated = FALSE
    /\ hcontent \in {h \in [HashFiles -> Contents] : \A f, g \in HashFiles : h[f] = h[g]}
    /\ hpc = "idle"
    /\ hmode = "hash"
    /\ harg = <<>>
    /\ hpath = <<>>
    /\ hpos = 0
    /\ hasher = Sha256New
    /\ buffer = [i \in 1..BufLen |-> 0]
    /\ hresult = None
    /\ hprev = None
    /\ hfile = None
    /\ hfailed = None
    /\ hread = <<>>
    /\ hheld = {}
    /\ cpc = "idle"
    /\ cpath = <<>>
    /\ cfs = <<>>
    /\ cfs0 = <<>>
    /\ cresult = None
    /\ cwrites = 0

\* one call of hash or hash_sync while another process writes the file
SpecHashConcurrent == HashConcurrentInit /\ [][HashConcurrentNext]_vars

\* no call made yet; the files of each tree start alike
CancelInit ==
    /\ op = "none"
    /\ base = <<>>
    /\ input = <<>>
    /\ result = Ok(<<>>)
    /\ created = {}
    /\ removed = {}
    /\ platform = "unix"
    /\ chmode = <<>>
    /\ permissions = [readonly |-> FALSE, bits |-> 0]
    /\ dkind \in [FlexNodes -> {"file", "symlink"}]
    /\ dsize \in {d \in [SizedNodes -> 0..MaxFileSize] : \A m, n \in SizedNodes : d[m] = d[n]}
    /\ dpc = "idle"
    /\ dpath = <<>>
    /\ stack = <<>>
    /\ total_size = 0
    /\ cur = <<>>
    /\ entries = {}
    /\ entry = <<>>
    /\ dresult = None
    /\ ioFailed = None
    /\ pushed = {}
    /\ listed = {}
    /\ summed = {}
    /\ repeated = FALSE
    /\ hcontent \in {h \in [HashFiles -> Contents] : \A f, g \in HashFiles : h[f] = h[g]}
    /\ hpc = "idle"
    /\ hmode = "hash"
    /\ harg = <<>>
    /\ hpath = <<>>
    /\ hpos = 0
    /\ hasher = Sha256New
    /\ buffer = [i \in 1..BufLen |-> 0]
    /\ hresult = None
    /\ hprev = None
    /\ hfile = None
    /\ hfailed = None
    /\ hread = <<>>
    /\ hheld = {}
    /\ cpc = "idle"
    /\ cpath = <<>>
    /\ cfs = <<>>
    /\ cfs0 = <<>>
    /\ cresult = None
    /\ cwrites = 0

\* one call of a suspending function, get_dir_size or hash, that its caller
\* may cancel
SpecCancel == CancelInit /\ [][CancelNext]_vars

\* one of the trees a call may find, no call of create_file_sync made
CreateInit ==
    /\ op = "none"
    /\ base = <<>>
    /\ input = <<>>
    /\ result = Ok(<<>>)
    /\ created = {}
    /\ removed = {}
    /\ platform = "unix"
    /\ chmode = <<>>
    /\ permissions = [readonly |-> FALSE, bits |-> 0]
    /\ dkind = [n \in FlexNodes |-> "file"]
    /\ dsize = [n \in SizedNodes |-> 0]
    /\ dpc = "idle"
    /\ dpath = <<>>
    /\ stack = <<>>
    /\ total_size = 0
    /\ cur = <<>>
    /\ entries = {}
    /\ entry = <<>>
    /\ dresult = None
    /\ ioFailed = None
    /\ pushed = {}
    /\ listed = {}
    /\ summed = {}
    /\ repeated = FALSE
    /\ hcontent = [f \in HashFiles |-> <<>>]
    /\ hpc = "idle"
    /\ hmode = "hash"
    /\ harg = <<>>
    /\ hpath = <<>>
    /\ hpos = 0
    /\ hasher = Sha256New
    /\ buffer = [i \in 1..BufLen |-> 0]
    /\ hresult = None
    /\ hprev = None
    /\ hfile = None
    /\ hfailed = None
    /\ hread = <<>>
    /\ hheld = {}
    /\ cpc = "idle"
    /\ cpath = <<>>
    /\ cfs \in CreateTrees
    /\ cfs0 = cfs
    /\ cresult = None
    /\ cwrites = 0

\* one call of create_file_sync, with another process at work in the tree
SpecCreateFile == CreateInit /\ [][CreateNext]_vars

----------------------------------------------------------------------------
(* Properties of the path functions *)

Range(s) == {s[i] : i \in 1..Len(s)}
NoBackslash(s) == Backslash \notin Range(s)
IsPrefix(s, t) == Len(s) <= Len(t) /\ SubSeq(t, 1, Len(s)) = s
HasSegment(s) ==
    LET cs == Components(s) IN cs # <<>> /\ Last(cs).kind # "RootDir"

DotDot == <<Dot, Dot>>
DotSlash == <<Dot, Sep>>

\* C1: for an absolute input, resolve succeeds and returns the input with every
\* backslash replaced by a separator, whatever the base is.
C1_AbsoluteInputNormalized ==
    (op = "resolve" /\ IsAbsolute(input)) =>
        /\ result.ok
        /\ result.val = normalize_path(input)
        /\ \A b \in Bases : resolve(b, input) = result

\* C2: each ".." component of a relative input, met when the accumulated path
\* has a segment, removes exactly the last component of the accumulated path
\* and leaves the text before it as it was; resolve(base, "..") is base without
\* its last segment.
C2_ParentDirRemovesOneSegment ==
    (op = "resolve" /\ ~IsAbsolute(input)) =>
        LET comps == Components(input)
        IN /\ \A k \in 1..Len(comps) :
                LET before == ResolveLoop(base, SubSeq(comps, 1, k - 1))
                    after == ResolveLoop(base, SubSeq(comps, 1, k))
                IN (comps[k].kind = "ParentDir" /\ HasSegment(before)) =>
                      /\ Components(after) = Front(Components(before))
                      /\ IsPrefix(after, before)
           /\ (input = DotDot /\ HasSegment(base)) =>
                 /\ result.ok
                 /\ Components(result.val) = Front(Components(base))
                 /\ IsPrefix(result.val, base)

C2_Witness ==
    /\ op = "resolve"
    /\ base = ExampleBase
    /\ input = <<Dot, Dot, Sep, "a">>
    /\ result = Ok(<<Sep, "a", Sep, "a">>)

\* C3: a leading "." component does not change the result: resolve(base, "./" + x)
\* equals resolve(base, x) for every relative x, and resolve(base, ".") is base
\* up to separator normalization.
C3_CurDirIsNoOp ==
    /\ (op = "resolve" /\ IsPrefix(DotSlash, input) /\ ~IsAbsolute(Drop(input, 2))) =>
          result = resolve(base, Drop(input, 2))
    /\ (op = "resolve" /\ input = <<Dot>>) =>
          (result.ok /\ normalize_path(result.val) = normalize_path(base))

C3_Witness ==
    /\ op = "resolve"
    /\ base = <<Sep, "a">>
    /\ input = <<Dot, Sep, "a">>
    /\ result = Ok(<<Sep, "a", Sep, "a">>)

\* C4: no string returned by resolve or by get_filepath contains a backslash.
C4_NoBackslashInResolvedPath ==
    (op \in {"resolve", "get_filepath"} /\ result.ok) => NoBackslash(result.val)

\* C5: normalize_path returns its argument with every backslash replaced by a
\* forward slash and every other character unchanged, and applying it to its
\* own result changes nothing.
C5_NormalizeIdempotent ==
    (op = "normalize_path") =>
        /\ result.ok
        /\ Len(result.val) = Len(input)
        /\ \A i \in 1..Len(input) :
              result.val[i] = (IF input[i] = Backslash THEN Sep ELSE input[i])
        /\ normalize_path(result.val) = result.val

C5_Witness ==
    /\ op = "normalize_path"
    /\ Cardinality({i \in 1..Len(input) : input[i] = Backslash}) >= 2
    /\ result.ok
    /\ NoBackslash(result.val)

ExistingEntries == {CanonStr(p) : p \in DOMAIN PathFs \cup {<<>>}}

----------------------------------------------------------------------------
(* Properties of get_dir_size *)

RECURSIVE SumLen(_)
SumLen(ns) ==
    IF ns = {} THEN 0
    ELSE LET n == CHOOSE n \in ns : TRUE IN dsize[n] + SumLen(ns \ {n})

\* the entries below a directory, at every depth, by their paths
Below(n) == {c \in Nodes : Len(c) > Len(n) /\ IsPrefix(n, c)}

\* the regular files a walk from a directory reaches through directories that
\* are no links
RECURSIVE RealFiles(_)
RealFiles(n) ==
    LET kids == {c \in Nodes : Len(c) = Len(n) + 1 /\ IsPrefix(n, c)}
    IN {c \in kids : Kind(c) = "file"}
       \cup UNION {RealFiles(c) : c \in {c \in kids : Kind(c) = "dir"}}

Returned == dpc = "done" /\ dresult.some /\ dresult.val.ok

\* C7: on a tree of directories and regular files only, get_dir_size returns
\* the sum of the byte lengths of all regular files at every depth of the tree.
C7_ExactSumWithoutSymlinks ==
    (/\ Returned
     /\ dpath \in Nodes
     /\ Kind(dpath) = "dir"
     /\ \A c \in Below(dpath) : Kind(c) # "symlink")
    => dresult.val.val = SumLen({c \in Below(dpath) : Kind(c) = "file"})

\* three files at two depths, each of one byte, and an empty directory
C7_Witness ==
    /\ Returned
    /\ dpath = ND
    /\ dkind[NM] = "file"
    /\ dsize[NF] = 1 /\ dsize[NG] = 1 /\ dsize[NM] = 1
    /\ dresult.val.val = 3

\* C8: an entry that is a symbolic link adds nothing to the total, at any time
\* of the walk: not its own length, not its target's, not a file below a
\* linked directory.  The total returned is that of the regular files reached
\* through directories that are no links.
C8_SymlinkEntriesAddNothing ==
    (dpc # "idle" /\ NodeOf(dpath).some /\ Kind(NodeOf(dpath).val) = "dir") =>
        LET counted == SumLen(RealFiles(NodeOf(dpath).val))
        IN /\ total_size <= counted
           /\ Returned => dresult.val.val = counted

\* w holds a one-byte file, a link to a one-byte file and a link to a directory
C8_Witness ==
    /\ Returned
    /\ dpath = NW
    /\ dsize[NH] = 1 /\ dsize[NG] = 1
    /\ dresult.val.val = 1

\* C9: once a directory listing or a metadata fetch has failed, the call is
\* over and its result is that failure; a total is returned only by a call no
\* filesystem call of which failed.
C9_FirstFailureAborts ==
    /\ ioFailed.some =>
        (dpc = "done" /\ dresult = Some(Err(FromIoError(ioFailed.val.io))))
    /\ Returned => ~ioFailed.some

\* a metadata fetch fails after a file has been counted
C9_Witness ==
    /\ ioFailed.some
    /\ ioFailed.val.call = "metadata"
    /\ total_size > 0
    /\ dpc = "done"
    /\ ~dresult.val.ok

----------------------------------------------------------------------------
(* Properties of hash and hash_sync *)

\* the file a call that returned has read
FileRead(c) == EntryOf(c.path).val

\* C10: the digest is a function of the bytes of the file alone: two calls that
\* return a digest for files of the same content return the same digest,
\* whatever the two paths are and whichever of hash and hash_sync each call is.
C10_DigestDependsOnContentOnly ==
    (/\ hresult.some /\ hprev.some
     /\ hresult.val.result.ok /\ hprev.val.result.ok
     /\ hcontent[FileRead(hresult.val)] = hcontent[FileRead(hprev.val)])
    => hresult.val.result.val = hprev.val.result.val

\* hash on one path and hash_sync on another, the two files of the same two bytes
C10_Witness ==
    /\ hresult.some /\ hprev.some
    /\ hresult.val.result.ok /\ hprev.val.result.ok
    /\ hresult.val.mode # hprev.val.mode
    /\ FileRead(hresult.val) # FileRead(hprev.val)
    /\ hcontent[FA] = hcontent[FB]
    /\ Len(hcontent[FA]) = 2
    /\ hresult.val.result.val = hprev.val.result.val


----------------------------------------------------------------------------
(* hash, hash_sync: failures *)

\* no call of hash or hash_sync is under way and one has returned
HashAtRest == hpc \in {"idle", "done"} /\ hresult.some

\* C11: hash and hash_sync return an error and no digest whenever the path
\* does not exist, the file cannot be opened or the read of a chunk fails; a
\* digest is returned only after the end of the file was reached with every
\* read successful
C11_FailureYieldsNoDigest ==
    /\ hfailed.some => HashAtRest /\ ~hresult.val.result.ok
    /\ hresult.some /\ ~get_filepath(hresult.val.arg).ok => ~hresult.val.result.ok
    /\ HashAtRest /\ hresult.val.result.ok =>
        /\ ~hfailed.some
        /\ FileRead(hresult.val) \in HashFiles
        /\ hpos = Len(hcontent[FileRead(hresult.val)])
        /\ hread = hcontent[FileRead(hresult.val)]

\* a read failed after an earlier read had delivered bytes, the call returned
\* the error
C11_Witness ==
    /\ HashAtRest
    /\ hfailed.some
    /\ hfailed.val.call = "read"
    /\ hpos > 0
    /\ ~hresult.val.result.ok
    /\ hresult.val.result.err.cause = hfailed.val.io


----------------------------------------------------------------------------
(* hash, hash_sync: a file that is written during the call *)

\* the digest of a byte sequence hashed in one piece
DigestOf(bytes) == Hex(Sha256Update(Sha256New, bytes), HexWidth)

\* C12 as stated: every digest a call returns is the hash of a byte sequence
\* the file held at one single moment of the call, also when another process
\* writes the file between two reads.
C12_DigestOfOneMoment ==
    HashAtRest /\ hresult.val.result.ok =>
        \E c \in hheld : hresult.val.result.val = DigestOf(c)

\* C12 amended: the digest is the hash of the chunks in the order they were
\* read, each chunk the bytes the file held at its position when it was read;
\* it is the hash of the content of the file when no write fell in the call.
C12_DigestOfChunksAsRead ==
    HashAtRest /\ hresult.val.result.ok =>
        /\ hresult.val.result.val = DigestOf(hread)
        /\ Cardinality(hheld) = 1 => hread \in hheld

\* a write fell between two reads and the digest returned is that of a byte
\* sequence the file never held
C12_Witness ==
    /\ HashAtRest
    /\ hresult.val.result.ok
    /\ Cardinality(hheld) > 1
    /\ hread \notin hheld
    /\ \A c \in hheld : hresult.val.result.val # DigestOf(c)


----------------------------------------------------------------------------
(* Cancellation of a suspending call *)

\* hash is suspended at the open or at a read
HashSuspended == hmode = "hash" /\ hpc \in {"open", "read"}

\* get_dir_size is suspended at a listing, at a next entry or at a metadata fetch
DirSuspended == (dpc = "loop" /\ stack # <<>>) \/ dpc \in {"iter", "meta"}

----------------------------------------------------------------------------
(* mkdir_sync, rmdir_sync, unlink_sync *)

\* the entries of the tree after the call
EntriesAfter == (DOMAIN PathFs \ removed) \cup created

\* stat of the path the call was given finds a directory
DirectoryAtInput ==
    /\ Exists(input)
    /\ IsDirAt(Walk(Cwd, Components(input), MaxSymlinks).val)

\* C14 as stated: mkdir_sync(path) succeeds and leaves a directory at path
\* also when the parents of path do not exist, which it creates as mkdir does.
C14_MkdirSyncCreatesParents ==
    (/\ op = "mkdir_sync"
     /\ ~Lstat(input).ok
     /\ Walk(Cwd, Front(Components(input)), MaxSymlinks) = Err("NotFound"))
    => result.ok /\ created # {}

\* C15 as stated: rmdir_sync(path) returns an error whenever no directory
\* exists at path, and leaves the filesystem as it was.
C15_RmdirSyncMissingIsError ==
    (op = "rmdir_sync" /\ ~DirectoryAtInput)
    => ~result.ok /\ EntriesAfter = DOMAIN PathFs

\* C16 as stated: after a successful unlink_sync(p) no entry remains at p and
\* no other entry has been removed (of a symbolic link p, the link itself is
\* what is removed); unlink_sync(p) returns an error when nothing exists at p.
C16_UnlinkRemovesTheEntryAtPath ==
    op = "unlink_sync" =>
        /\ result.ok => Lstat(input).ok /\ removed = {Lstat(input).val}
        /\ ~Lstat(input).ok => ~result.ok


----------------------------------------------------------------------------
(* chmod_sync on a platform without permission bits *)

\* none of the bits of 0o444 is set in n: each of its three low octal digits
\* is below 4
NoReadBit(n) == \A k \in {1, 8, 64} : (n \div k) % 8 < 4

\* chmod_sync returned Ok in a build for a platform without permission bits
ChmodDoneOnWindows == op = "chmod_sync" /\ platform = "windows" /\ result.ok

----------------------------------------------------------------------------
(* The path in an error *)

\* C18 as stated, for get_dir_size: the error the call returns identifies the
\* path it concerns, the directory whose listing failed or the entry whose
\* metadata fetch failed.
C18_ErrorNamesItsPath ==
    (dpc = "done" /\ dresult.some /\ ~dresult.val.ok) =>
        /\ "context" \in DOMAIN dresult.val.err
        /\ dresult.val.err.context = ioFailed.val.path


----------------------------------------------------------------------------
(* get_dir_size: what the traversal visits *)

\* C19: during one call of get_dir_size no path is pushed onto the stack more
\* than once, no directory is listed more than once and no entry is counted
\* more than once.
C19_NothingVisitedTwice ==
    /\ ~repeated
    /\ \A i, j \in 1..Len(stack) : stack[i] = stack[j] => i = j
    /\ \A i \in 1..Len(stack) :
        /\ stack[i] \in pushed
        /\ NodeOf(stack[i]).some => NodeOf(stack[i]).val \notin listed

\* a call that listed three directories and counted two files has returned
C19_Witness ==
    /\ Returned
    /\ Cardinality(pushed) >= 3
    /\ Cardinality(listed) >= 3
    /\ Cardinality(summed) >= 2
    /\ ~repeated


\* the call is reading the entries of the directory it listed last
Listing == dpc \in {"iter", "meta"}

\* C20 as stated: get_dir_size never lists the entries of a directory that is
\* itself a symbolic link, be it the starting path of the caller or an entry
\* found during the walk.
C20_NeverListsALink ==
    Listing => Kind(LNodeOf(cur).val) # "symlink"

\* C20 amended: get_dir_size never lists the entries of a directory it found
\* as an entry during the walk and that is itself a symbolic link; the
\* starting path of the caller is listed as read_dir resolves it, also when it
\* is a symbolic link to a directory.
C20_NeverListsALinkedEntry ==
    /\ Listing /\ cur # dpath => Kind(LNodeOf(cur).val) = "dir"
    /\ \A i \in 1..Len(stack) :
        stack[i] # dpath => Kind(LNodeOf(stack[i]).val) = "dir"
    /\ \A p \in pushed : p # dpath => Kind(LNodeOf(p).val) = "dir"

\* a call on w, which holds a link to the directory d/s, has returned without
\* having listed d/s
C20_Witness ==
    /\ Returned
    /\ dpath = NW
    /\ Kind(NL) = "symlink"
    /\ pushed = {NW}
    /\ listed = {NW}


----------------------------------------------------------------------------
(* get_dir_size: termination *)

\* the directories of the tree that are no links
DirNodes == {n \in Nodes : Kind(n) = "dir"}

\* the steps the listing of each directory of ds can take at most: one for the
\* listing, two for each entry, two for the end of the stream
RECURSIVE ListingWork(_)
ListingWork(ds) ==
    IF ds = {} THEN 0
    ELSE LET n == CHOOSE n \in ds : TRUE
         IN 2 * Cardinality(ChildNames(n)) + 3 + ListingWork(ds \ {n})

\* the steps left to the point the call is at in the loops
PcWork ==
    CASE dpc = "loop" -> 1
      [] dpc = "iter" -> 2
      [] dpc = "meta" -> 3
      [] OTHER -> 0

\* a bound on the number of steps the call can still take
StepsLeft == PcWork + 2 * Cardinality(entries) + ListingWork(DirNodes \ listed)

\* C21: every call of get_dir_size on a finite tree that is not modified ends,
\* with a total or with an error, after finitely many steps, also when links
\* form cycles: a call that has not returned can always take a step, and each
\* step lowers a bound on the steps left.
C21_EveryCallTerminates ==
    /\ [](dpc \in {"loop", "iter", "meta"} => ENABLED DirNext)
    /\ [][(dpc \in {"loop", "iter", "meta"}) => (StepsLeft' < StepsLeft)]_vars

\* a call on d, where d/s/m is a link to d, has returned a total, and so has a
\* call on w, where w/p and w/q are links to each other
C21_Witness ==
    /\ Returned
    /\ \/ dpath = ND /\ Kind(NM) = "symlink" /\ listed = {ND, NS, NE}
       \/ dpath = NW /\ listed = {NW}
    /\ StepsLeft >= 0


----------------------------------------------------------------------------
(* get_dir_size: the order of the traversal *)

\* the directory the call started at, the links of the starting path resolved
StartDir == NodeOf(dpath).val

----------------------------------------------------------------------------
(* hash, hash_sync: the chunks *)

\* C23: the digest hash and hash_sync return is the hash of all the bytes of
\* the file from the first to the last, however the reads split them: whatever
\* the lengths of the reads, short ones included, the bytes fed to the hasher
\* are those of the file, each once and in the order of the file.
C23_DigestOfWholeFile ==
    HashAtRest /\ hresult.val.result.ok =>
        /\ hread = hcontent[FileRead(hresult.val)]
        /\ hresult.val.result.val = DigestOf(hcontent[FileRead(hresult.val)])
        /\ hresult.val.result.val = Hex(hasher, HexWidth)

\* the digest of a file that is longer than the buffer has been returned
C23_Witness ==
    /\ HashAtRest
    /\ hresult.val.result.ok
    /\ Len(hcontent[FileRead(hresult.val)]) > BufLen
    /\ hread = hcontent[FileRead(hresult.val)]
    /\ hresult.val.result.val = DigestOf(hread)


----------------------------------------------------------------------------
(* resolve: ".." where nothing is left to remove *)

\* C24: when the path resolve has accumulated has no segment left (the base is
\* a bare root or empty, or earlier ".." components removed every segment), a
\* further ".." component leaves the accumulated path exactly as it is, and
\* resolve returns Ok; a base that is a bare root and an input made of ".."
\* components only give that root back.
C24_ParentDirAtRootIsNoOp ==
    (op = "resolve" /\ ~IsAbsolute(input)) =>
        LET comps == Components(input)
        IN /\ result.ok
           /\ \A k \in 1..Len(comps) :
                LET before == ResolveLoop(base, SubSeq(comps, 1, k - 1))
                    after == ResolveLoop(base, SubSeq(comps, 1, k))
                IN (comps[k].kind = "ParentDir" /\ ~HasSegment(before)) =>
                      after = before
           /\ (~HasSegment(base) /\ \A k \in 1..Len(comps) : comps[k].kind = "ParentDir") =>
                 result.val = base

\* resolve("/", "../..") has returned "/", and resolve("a", "../..") has
\* returned the empty path its first ".." left
C24_Witness ==
    /\ op = "resolve"
    /\ input = TwoParents
    /\ \/ base = <<Sep>> /\ result = Ok(<<Sep>>)
       \/ base = <<"a">> /\ result = Ok(<<>>)


----------------------------------------------------------------------------
(* hash, get_dir_size: where the suspending forms suspend *)

\* the call is suspended at an await: the states in which its future can be
\* dropped
Suspended ==
    \/ hmode = "hash" /\ hpc \in {"open", "read"}
    \/ dpc = "loop" /\ stack # <<>>
    \/ dpc \in {"iter", "meta"}

\* the filesystem call a step of hash or get_dir_size makes, "none" if it makes
\* none: std::fs::canonicalize in get_filepath, File::open, file.read,
\* read_dir, next_entry, entry.metadata
FsCallMade ==
    IF hpc = "idle" /\ hmode' = "hash" /\ (hpc' = "open" \/ hresult' # hresult)
    THEN "canonicalize"
    ELSE IF hpc = "open" /\ hpc' \notin {"open", "cancelled"} THEN "open"
    ELSE IF hpc = "read" /\ hpc' # "cancelled" /\ hashVars' # hashVars THEN "read"
    ELSE IF dpc = "loop" /\ stack # <<>> /\ dpc' \notin {"loop", "cancelled"} THEN "read_dir"
    ELSE IF dpc = "iter" /\ dpc' # "cancelled" /\ dirVars' # dirVars THEN "next_entry"
    ELSE IF dpc = "meta" /\ dpc' # "cancelled" /\ dirVars' # dirVars THEN "metadata"
    ELSE "none"

\* C25: in hash and get_dir_size every filesystem call is made at a suspension
\* point and every suspension point is a filesystem call: a step that makes a
\* filesystem call (path resolution, open, read, listing, metadata) starts
\* from a state where the call is suspended, and a suspended call that is not
\* dropped goes on with a filesystem call.
C25_SuspendsAtEveryFsCall ==
    [][/\ (FsCallMade # "none") => Suspended
       /\ (Suspended /\ hpc' # "cancelled" /\ dpc' # "cancelled") => (FsCallMade # "none")]_vars

\* the same for every filesystem call but the path resolution of hash
C25_SuspendsAfterPathResolution ==
    [][/\ (FsCallMade \notin {"none", "canonicalize"}) => Suspended
       /\ (Suspended /\ hpc' # "cancelled" /\ dpc' # "cancelled") => (FsCallMade # "none")]_vars


----------------------------------------------------------------------------
(* create_file_sync: a file that is already there *)

\* the entry create_file_sync was called for
CreateTarget == CNode(cpath)

\* a step of the call leaves every file of the tree as it is
CallKeepsFiles ==
    (cpc' # cpc) =>
        \A m \in DOMAIN cfs :
            cfs[m].kind = "file" => (m \in DOMAIN cfs' /\ cfs'[m] = cfs[m])

\* what a call that found its path present has returned and left
ReturnsForPresentPath ==
    cpc = "done" =>
        /\ CKind(cfs0, CreateTarget) = "file" =>
              (cresult = Some(Ok(<<>>)) /\ cfs[CreateTarget] = cfs0[CreateTarget])
        /\ CKind(cfs0, CreateTarget) = "dir" =>
              (~cresult.val.ok /\ cfs = cfs0)

\* C26: create_file_sync never truncates or changes a file that is at its
\* path: called for a file that is there it returns Ok and the file holds what
\* it held, called for a directory that is there it returns an error and
\* changes nothing, and no step of the call changes a file of the tree, also
\* when another process creates and writes the file between the test for
\* existence and File::create.
C26_NeverTruncatesAFile ==
    []ReturnsForPresentPath /\ [][CallKeepsFiles]_vars

\* the same as long as no other process has created a file during the call
C26_NeverTruncatesUndisturbed ==
    []ReturnsForPresentPath /\ [][cwrites = 0 => CallKeepsFiles]_vars

====
